---- MODULE Spec2Model ----
(***************************************************************************)
(* A model of translator-gemini.js: the Backoff Translator                 *)
(* (translateTextWithGemini), the remark plugins (snakeCaseToCodePlugin,    *)
(* cleanupGeminiArtifactsPlugin, geminiTranslatePlugin) and the main runner *)
(* (configuration checks and translateFile).                                *)
(*                                                                         *)
(* src/translator-gemini.js holds two variants of the script one after the *)
(* other: lines 1-376 (language code argument, gemini-2.5-pro) and lines   *)
(* 377-638 (fixed target language, gemini-2.0-flash).  The variable         *)
(* `variant` says which of the two is running.                             *)
(*                                                                         *)
(* JavaScript strings are sequences of characters, a character being a     *)
(* TLA+ string: the character itself when it is ASCII, a name otherwise.   *)
(* JavaScript values are records [t |-> type, v |-> characters].           *)
(***************************************************************************)
EXTENDS Integers, Sequences, FiniteSets, TLC

VARIABLES
    variant,            \* 1: lines 1-376, 2: lines 377-638
    translationCache,   \* global.translationCache
    call,               \* the translateTextWithGemini call in progress (SpecT)
    callsDone,          \* number of calls made so far (SpecT)
    cacheAtCall,        \* global.translationCache when the call started (SpecT)
    tree,               \* the document tree: a sequence of nodes, tree[1] the root
    yamlValue,          \* the value of the tree's yaml node (the front-matter text)
    objRef,             \* the front-matter object the front-matter units share
    units,              \* nodesToTranslate
    unitPc,             \* per unit: "timer", "translating", "written", "threw"
    unitCall,           \* per unit: its translateTextWithGemini call
    unitResult,         \* per unit: what its call returned
    pluginPc,           \* geminiTranslatePlugin: "init", "waiting", "resolved", "rejected"
    input,              \* the tree and the front-matter text the plugin was given
    jChildren,          \* SpecJ: the children of the parent the janitor visits
    jLang,              \* SpecJ: options.lang
    jPasses,            \* SpecJ: how many times the janitor pass has run
    jOnce,              \* SpecJ: the children after the first pass
    gChildren,          \* SpecG: the children of the parent the guard visits
    gIndex,             \* SpecG: the index of the child the traversal is at
    gOriginal,          \* SpecG: the children before the guard ran
    gDone,              \* SpecG: per child visited, the nodes that took its place
    mArgv,              \* SpecM: process.argv[2] and process.argv[3]
    mKey,               \* SpecM: process.env.GEMINI_API_KEY
    mPc,                \* SpecM: where the process is
    mExit,              \* SpecM: the exit status; -1 while the process runs
    mLog,               \* SpecM: the file reads, requests and file writes so far
    mPasses,            \* SpecM: the steps of the pipeline so far, in order
    mPending,           \* SpecM: the units collected and not yet written back
    mFailed             \* SpecM: the step that threw; "none" if none did

\* ------------------------------------------------------------------ strings

Q == "\""
\* the backtick, which a TLA+ string cannot hold
BT == "BACKTICK"
SP == " "

Front(s) == SubSeq(s, 1, Len(s) - 1)

RECURSIVE TrimStart(_)
TrimStart(s) == IF s # <<>> /\ Head(s) = SP THEN TrimStart(Tail(s)) ELSE s

RECURSIVE TrimEnd(_)
TrimEnd(s) == IF s # <<>> /\ s[Len(s)] = SP THEN TrimEnd(Front(s)) ELSE s

\* String.prototype.trim
Trim(s) == TrimEnd(TrimStart(s))

StartsWith(s, c) == s # <<>> /\ Head(s) = c
EndsWith(s, c) == s # <<>> /\ s[Len(s)] = c

\* s.slice(1, -1)
Slice1(s) == IF Len(s) < 2 THEN <<>> ELSE SubSeq(s, 2, Len(s) - 1)

\* s.replace(/^"|"$/g, ""): one quote at the very start, one at the very end
StripQuotes(s) ==
    LET a == IF StartsWith(s, Q) THEN Tail(s) ELSE s
    IN  IF EndsWith(a, Q) THEN Front(a) ELSE a

\* ------------------------------------------------------------------- values

Str(s) == [t |-> "string", v |-> s]
Num(s) == [t |-> "number", v |-> s]
Undefined == [t |-> "undefined", v |-> <<>>]
Null == [t |-> "null", v |-> <<>>]
\* Object.prototype.constructor, the function Object
ObjectFunction == [t |-> "function", v |-> <<"O", "b", "j", "e", "c", "t">>]

\* the operand of ! is falsy
Falsy(val) ==
    \/ val.t \in {"undefined", "null"}
    \/ val.t = "string" /\ val.v = <<>>
    \/ val.t = "number" /\ val.v = <<"0">>
    \/ val.t = "boolean" /\ val.v = <<"f", "a", "l", "s", "e">>

IsString(val) == val.t = "string"

\* ------------------------------------------------------- program constants

MAX_RETRIES == 5
BASE_DELAY_MS == 1000
MAX_DELAY_MS == 60000

Variants == {1, 2}

\* ---------------------------------------------------- the translation cache

\* global.translationCache before the first store: undefined
NoCache == [defined |-> FALSE, own |-> [k \in {} |-> Undefined]]

ConstructorKey == <<"c", "o", "n", "s", "t", "r", "u", "c", "t", "o", "r">>

\* The cache is created as the object literal {}: besides its own entries it
\* answers for the properties it inherits from Object.prototype.
ObjectPrototypeKeys == {ConstructorKey}

\* global.translationCache[text] on a defined cache
CacheGet(cache, key) ==
    IF key \in DOMAIN cache.own THEN cache.own[key]
    ELSE IF key \in ObjectPrototypeKeys THEN ObjectFunction
    ELSE Undefined

\* global.translationCache = global.translationCache || {};
\* global.translationCache[text] = translation
CachePut(cache, key, val) ==
    [defined |-> TRUE,
     own |-> [k \in DOMAIN cache.own \cup {key} |->
                 IF k = key THEN val ELSE cache.own[k]]]

\* global.translationCache && global.translationCache[text]
CacheHit(cache, key) == cache.defined /\ ~Falsy(CacheGet(cache, key))

\* ------------------------------------------------ translateTextWithGemini

\* no error caught yet
NoError == [status |-> -1, message |-> ""]

\* the statuses the API documents as transient: rate limit, server error,
\* overload
TransientStatuses == {429, 500, 503}

\* A call: pc is "start", "awaiting" (a generateContent request is in flight),
\* "sleeping" (await sleep(delay)), "returned" or "threw".  The fields
\* requests, sleeps, failures, transient, reply, err and prevDelay record what
\* the call did: the requests issued, the sleeps started, the errors caught,
\* how many of them had a transient status, the last reply, the last error,
\* and the delay of the sleep before the last one.
NewCall(text) ==
    [pc |-> "start", text |-> text, attempt |-> 0, result |-> Undefined,
     requests |-> 0, sleeps |-> 0, failures |-> 0, transient |-> 0,
     reply |-> Undefined, err |-> NoError, delay |-> 0, prevDelay |-> 0]

IdleCall == [NewCall(Undefined) EXCEPT !.pc = "idle"]

Return(c, val) == [c EXCEPT !.pc = "returned", !.result = val]

\* response.text().trim().replace(/^"|"$/g, "") and the removal of backticks
\* the original did not have
CleanReply(text, reply) ==
    LET translation == StripQuotes(Trim(reply))
    IN  IF ~StartsWith(text, BT) /\ StartsWith(translation, BT)
            /\ EndsWith(translation, BT)
        THEN Slice1(translation)
        ELSE translation

\* if (!translation || translation.trim() === "") return text;  (variant 1 only)
RejectsEmpty(v) == v = 1

\* the entry of the function up to the first generateContent request
Begin(c, cache) ==
    IF Falsy(c.text) THEN Return(c, c.text)
    ELSE IF ~IsString(c.text) THEN [c EXCEPT !.pc = "threw"]
    ELSE IF Trim(c.text.v) = <<>> THEN Return(c, c.text)
    ELSE IF CacheHit(cache, c.text.v) THEN Return(c, CacheGet(cache, c.text.v))
    ELSE [c EXCEPT !.pc = "awaiting", !.requests = 1]

\* OnReply with the wrong variable returned: return text
OnReplyReturnsText(v, c, cache, reply) ==
    LET translation == CleanReply(c.text.v, reply)
        seen == [c EXCEPT !.reply = Str(reply)]
    IN  [call |-> Return(seen, c.text),
         cache |-> IF RejectsEmpty(v) /\ Trim(translation) = <<>>
                   THEN cache
                   ELSE CachePut(cache, c.text.v, Str(translation))]

\* the try block after a reply arrived: the call and the cache afterwards
OnReply(v, c, cache, reply) ==
    LET translation == CleanReply(c.text.v, reply)
        seen == [c EXCEPT !.reply = Str(reply)]
    IN  IF RejectsEmpty(v) /\ (translation = <<>> \/ Trim(translation) = <<>>)
        THEN [call |-> Return(seen, c.text), cache |-> cache]
        ELSE [call |-> Return(seen, Str(translation)),
              cache |-> CachePut(cache, c.text.v, Str(translation))]

NonRetryableStatus == {400, 401, 404}
RetryableStatus == {429, 503, 500}
RetryableMessages == {"RESOURCE_EXHAUSTED", "Overloaded"}

\* isRetryable taking every error that carries a status for a transient one
IsRetryableAnyStatus(v, err) == err.status # 0

\* isRetryable
IsRetryable(v, err) ==
    \/ err.status \in RetryableStatus
    \/ v = 2 /\ err.message \in RetryableMessages

Min(a, b) == IF a < b THEN a ELSE b

RECURSIVE Pow2(_)
Pow2(n) == IF n = 0 THEN 1 ELSE 2 * Pow2(n - 1)

\* a delay that grows by BASE_DELAY_MS per attempt instead of doubling
BackoffDelayLinear(attempt, jitter) ==
    Min(attempt * BASE_DELAY_MS + jitter, MAX_DELAY_MS)

\* Math.min(Math.pow(2, attempt) * BASE_DELAY_MS + jitter, MAX_DELAY_MS)
BackoffDelay(attempt, jitter) ==
    Min(Pow2(attempt) * BASE_DELAY_MS + jitter, MAX_DELAY_MS)

\* the catch block with the retry cap tested as attempt > MAX_RETRIES
OnErrorOffByOne(v, c, err, jitter) ==
    LET a == c.attempt + 1
        seen == [c EXCEPT !.attempt = a, !.err = err,
                          !.failures = c.failures + 1,
                          !.transient = c.transient
                              + (IF err.status \in TransientStatuses
                                 THEN 1 ELSE 0)]
    IN  IF err.status \in NonRetryableStatus THEN Return(seen, c.text)
        ELSE IF ~(\/ err.status \in RetryableStatus
                  \/ (v = 2 /\ err.message \in RetryableMessages))
        THEN Return(seen, c.text)
        ELSE IF a > MAX_RETRIES THEN Return(seen, c.text)
        ELSE [seen EXCEPT !.pc = "sleeping", !.sleeps = c.sleeps + 1,
                          !.prevDelay = c.delay,
                          !.delay = Min(Pow2(a) * BASE_DELAY_MS + jitter,
                                        MAX_DELAY_MS)]

\* the catch block
OnError(v, c, err, jitter) ==
    LET a == c.attempt + 1
        seen == [c EXCEPT !.attempt = a, !.err = err,
                          !.failures = c.failures + 1,
                          !.transient = c.transient
                              + (IF err.status \in TransientStatuses
                                 THEN 1 ELSE 0)]
    IN  IF err.status \in NonRetryableStatus THEN Return(seen, c.text)
        ELSE IF ~IsRetryable(v, err) THEN Return(seen, c.text)
        ELSE IF a >= MAX_RETRIES THEN Return(seen, c.text)
        ELSE [seen EXCEPT !.pc = "sleeping", !.sleeps = c.sleeps + 1,
                          !.prevDelay = c.delay,
                          !.delay = BackoffDelay(a, jitter)]

\* the sleep is over: while (attempt < MAX_RETRIES) and the next request
OnWake(c) ==
    IF c.attempt < MAX_RETRIES
    THEN [c EXCEPT !.pc = "awaiting", !.requests = c.requests + 1]
    ELSE Return(c, Undefined)

\* ------------------------------------------------------- the document tree

\* A node: its type, its value (literals), the index of its parent in the tree
\* (0 for the root) and its attributes (embedded components).
Node(type, value, parent, attributes) ==
    [type |-> type, value |-> value, parent |-> parent,
     attributes |-> attributes]

Root == Node("root", Undefined, 0, <<>>)

\* an attribute of an embedded component
Attr(type, name, value) == [type |-> type, name |-> name, value |-> value]

\* the value of an attribute given as an expression: title={x}
ExpressionValue == [t |-> "object", v |-> <<>>]

\* mdast and mdx: the nodes that have children, and the literals
ParentTypes == {"root", "paragraph", "mdxJsxFlowElement", "mdxJsxTextElement"}
JsxTypes == {"mdxJsxFlowElement", "mdxJsxTextElement"}

Ids(t) == [i \in 1 .. Len(t) |-> i]

\* node.children, in order
ChildrenOf(t, n) ==
    LET IsChild(i) == t[i].parent = n
    IN  SelectSeq(Ids(t), IsChild)

RECURSIVE AncestorsOf(_, _)
AncestorsOf(t, n) ==
    IF t[n].parent = 0 THEN {}
    ELSE {t[n].parent} \cup AncestorsOf(t, t[n].parent)

\* ------------------------------------------------------ the front-matter

\* The text of a yaml node: kind "mapping" with its key: value lines in order,
\* "invalid" (not YAML), "empty" or "scalar"; "none" when the tree has no yaml
\* node.
Yaml(kind, pairs) == [kind |-> kind, pairs |-> pairs]
NoYaml == Yaml("none", <<>>)

\* the object yaml.load returns for a mapping: its keys in order, their values
NoObject == [keys |-> <<>>, vals |-> [k \in {} |-> Undefined]]

SeqRange(s) == {s[i] : i \in 1 .. Len(s)}

\* yaml.load(node.value) followed by Object.keys(frontmatter): ok is FALSE
\* when either throws (text that is not YAML, a duplicated key, or an empty
\* document, for which yaml.load returns undefined); a scalar has no key of
\* its own that is a name
YamlLoad(y) ==
    IF y.kind = "mapping"
           /\ \A i, j \in 1 .. Len(y.pairs) :
                  y.pairs[i][1] = y.pairs[j][1] => i = j
    THEN [ok |-> TRUE,
          obj |-> [keys |-> [i \in 1 .. Len(y.pairs) |-> y.pairs[i][1]],
                   vals |-> [k \in {y.pairs[i][1] : i \in 1 .. Len(y.pairs)} |->
                               LET i == CHOOSE i \in 1 .. Len(y.pairs) :
                                           y.pairs[i][1] = k
                               IN  y.pairs[i][2]]]]
    ELSE IF y.kind = "scalar" THEN [ok |-> TRUE, obj |-> NoObject]
    ELSE [ok |-> FALSE, obj |-> NoObject]

\* yaml.dump(objRef, { lineWidth: -1 }).trim(): the keys in insertion order;
\* ok is FALSE when it throws (a function or undefined cannot be dumped)
YamlDump(obj) ==
    IF \E k \in SeqRange(obj.keys) : obj.vals[k].t \in {"function", "undefined"}
    THEN [ok |-> FALSE, text |-> NoYaml]
    ELSE [ok |-> TRUE,
          text |-> Yaml("mapping",
                        [i \in 1 .. Len(obj.keys) |->
                            <<obj.keys[i], obj.vals[obj.keys[i]]>>])]

\* ------------------------------------------ geminiTranslatePlugin: collection

FRONTMATTER_KEYS == {"title", "description", "sidebar_label", "summary"}
JSX_PROPS == {"title", "label", "alt", "placeholder"}

\* the node types the visitor answers "skip" for
SkipTypes(v) ==
    IF v = 1
    THEN {"code", "inlineCode", "mdxjsEsm", "mdxFlowExpression", "html"}
    ELSE {"code", "inlineCode", "mdxjsEsm", "mdxFlowExpression"}

\* an entry of nodesToTranslate: node is the index of the node in the tree,
\* attr the index of the attribute in node.attributes (attribute units), key
\* the front-matter key (front-matter units)
Unit(kind, node, attr, key, original) ==
    [kind |-> kind, node |-> node, attr |-> attr, key |-> key,
     original |-> original]

\* if (node.type === "text" && node.value.trim()) push
TextUnits(t, n) ==
    IF t[n].type = "text" /\ Trim(t[n].value.v) # <<>>
    THEN <<Unit("text", n, 0, "", t[n].value)>>
    ELSE <<>>

\* node.attributes.forEach(...)
AttributeUnits(t, n) ==
    IF t[n].type \in JsxTypes
    THEN LET Translatable(a) ==
                 /\ t[n].attributes[a].type = "mdxJsxAttribute"
                 /\ t[n].attributes[a].name \in JSX_PROPS
                 /\ IsString(t[n].attributes[a].value)
             picked == SelectSeq(Ids(t[n].attributes), Translatable)
         IN  [i \in 1 .. Len(picked) |->
                 Unit("attribute", n, picked[i], "",
                      t[n].attributes[picked[i]].value)]
    ELSE <<>>

\* try { frontmatter = yaml.load(node.value); Object.keys(...).forEach(...) }
\* catch (e) { }
FrontmatterUnits(t, yv, n) ==
    IF t[n].type = "yaml" /\ YamlLoad(yv).ok
    THEN LET obj == YamlLoad(yv).obj
             Translatable(i) ==
                 obj.keys[i] \in FRONTMATTER_KEYS /\ ~Falsy(obj.vals[obj.keys[i]])
             picked == SelectSeq(Ids(obj.keys), Translatable)
         IN  [i \in 1 .. Len(picked) |->
                 Unit("frontmatter", n, 0, obj.keys[picked[i]],
                      obj.vals[obj.keys[picked[i]]])]
    ELSE <<>>

\* a visitor that tests for a value instead of the node type and never skips
VisitorAnyLiteral(v, t, yv, n) ==
    [skip |-> FALSE,
     units |-> (IF IsString(t[n].value) /\ Trim(t[n].value.v) # <<>>
                THEN <<Unit("text", n, 0, "", t[n].value)>>
                ELSE <<>>)
               \o AttributeUnits(t, n) \o FrontmatterUnits(t, yv, n)]

\* the visitor given to visit(tree, ...): whether it answers "skip" for node n
\* and the units it pushes
Visitor(v, t, yv, n) ==
    IF t[n].type \in SkipTypes(v)
    THEN [skip |-> TRUE, units |-> <<>>]
    ELSE [skip |-> FALSE,
          units |-> TextUnits(t, n) \o AttributeUnits(t, n)
                        \o FrontmatterUnits(t, yv, n)]

\* visit(tree, visitor): depth first, parents before children, the children of
\* a skipped node not entered
RECURSIVE Visit(_, _, _, _)
RECURSIVE VisitAll(_, _, _, _)
Visit(v, t, yv, n) ==
    LET r == Visitor(v, t, yv, n)
    IN  IF r.skip THEN r.units
        ELSE r.units \o VisitAll(v, t, yv, ChildrenOf(t, n))

VisitAll(v, t, yv, kids) ==
    IF kids = <<>> THEN <<>>
    ELSE Visit(v, t, yv, Head(kids)) \o VisitAll(v, t, yv, Tail(kids))

\* the object the front-matter units refer to (objRef)
CollectedObject(t, yv) ==
    IF (\E n \in 1 .. Len(t) : t[n].type = "yaml") /\ YamlLoad(yv).ok
    THEN YamlLoad(yv).obj
    ELSE NoObject

\* ------------------------------------------ cleanupGeminiArtifactsPlugin

\* characters outside ASCII, by name
BSL == "\\"
LDQUO == "LEFT DOUBLE QUOTATION MARK"
RDQUO == "RIGHT DOUBLE QUOTATION MARK"
FWLP == "FULLWIDTH LEFT PARENTHESIS"
FWRP == "FULLWIDTH RIGHT PARENTHESIS"
HAN == "CJK UNIFIED IDEOGRAPH"
KANA == "HIRAGANA OR KATAKANA LETTER"
IDEO_STOP == "IDEOGRAPHIC FULL STOP"
FWCOMMA == "FULLWIDTH COMMA"
FWCOLON == "FULLWIDTH COLON"

\* ["\u201C\u201D]
QuoteChars == {Q, LDQUO, RDQUO}
\* [a-z], [A-Z], [0-9]
LowerCase ==
    {"a", "b", "c", "d", "e", "f", "g", "h", "i", "j", "k", "l", "m", "n",
     "o", "p", "q", "r", "s", "t", "u", "v", "w", "x", "y", "z"}
UpperCase ==
    {"A", "B", "C", "D", "E", "F", "G", "H", "I", "J", "K", "L", "M", "N",
     "O", "P", "Q", "R", "S", "T", "U", "V", "W", "X", "Y", "Z"}
Digits == {"0", "1", "2", "3", "4", "5", "6", "7", "8", "9"}
\* [a-zA-Z0-9]
Alnum == LowerCase \cup UpperCase \cup Digits
\* [\u4e00-\u9fa5] and [\u4e00-\u9fa5\u3040-\u30ff]
HanChars == {HAN}
CjkChars == {HAN, KANA}

\* cjkRegex
CjkOf(lang) == IF lang = "zh" THEN HanChars ELSE CjkChars

NoMatch == [len |-> 0, out |-> <<>>]
Match(len, out) == [len |-> len, out |-> out]

\* the length of the run of spaces of s that starts at index i
RECURSIVE SpacesAt(_, _)
SpacesAt(s, i) ==
    IF i <= Len(s) /\ s[i] = SP THEN 1 + SpacesAt(s, i + 1) ELSE 0

\* the first index >= from at which s holds a character of set cs; 0 if none
RECURSIVE IndexOf(_, _, _)
IndexOf(s, cs, from) ==
    IF from > Len(s) THEN 0
    ELSE IF s[from] \in cs THEN from
    ELSE IndexOf(s, cs, from + 1)

\* the end of the code span `[^`]+` that starts at index i of s; 0 if none
SpanEnd(s, i) ==
    IF i + 2 <= Len(s) /\ s[i] = BT /\ s[i + 1] # BT
    THEN IndexOf(s, {BT}, i + 2)
    ELSE 0

\* Each rule: the match of its pattern at the start of s (its length, 0 for
\* none) and what replaces it.

\* /\\`/g -> `
MatchEscapedBacktick(s) ==
    IF Len(s) >= 2 /\ s[1] = BSL /\ s[2] = BT THEN Match(2, <<BT>>)
    ELSE NoMatch

\* /`\s*`/g -> ` `
MatchGluedCode(s) ==
    IF s[1] = BT /\ Len(s) >= 2 + SpacesAt(s, 2)
           /\ s[2 + SpacesAt(s, 2)] = BT
    THEN Match(2 + SpacesAt(s, 2), <<BT, SP, BT>>)
    ELSE NoMatch

\* /["\u201C\u201D]\s*(`[^`]+`)/g -> $1
MatchQuoteBeforeCode(s) ==
    LET b == 2 + SpacesAt(s, 2)
        e == SpanEnd(s, b)
    IN  IF s[1] \in QuoteChars /\ e > 0 THEN Match(e, SubSeq(s, b, e))
        ELSE NoMatch

\* /(`[^`]+`)\s*["\u201C\u201D]/g -> $1
MatchQuoteAfterCode(s) ==
    LET e == SpanEnd(s, 1)
        q == e + 1 + SpacesAt(s, e + 1)
    IN  IF e > 0 /\ q <= Len(s) /\ s[q] \in QuoteChars
        THEN Match(q, SubSeq(s, 1, e))
        ELSE NoMatch

\* parenRegex: /\(([^)]*?(?:cjk|[0-9])+[^)]*?)\)/g -> fullwidth pair
MatchMixedParens(lang, s) ==
    LET e == IndexOf(s, {")"}, 2)
    IN  IF s[1] = "(" /\ e > 0
               /\ \E i \in 2 .. e - 1 : s[i] \in CjkOf(lang) \cup Digits
        THEN Match(e, <<FWLP>> \o SubSeq(s, 2, e - 1) \o <<FWRP>>)
        ELSE NoMatch

\* /\uFF08([^\uFF09]*?)\)/g -> fullwidth pair
MatchHalfClosed(s) ==
    LET e == IndexOf(s, {")"}, 2)
    IN  IF s[1] = FWLP /\ e > 0 /\ \A i \in 2 .. e - 1 : s[i] # FWRP
        THEN Match(e, SubSeq(s, 1, e - 1) \o <<FWRP>>)
        ELSE NoMatch

\* /\(([^)]*?)\uFF09/g -> fullwidth pair
MatchHalfOpened(s) ==
    LET e == IndexOf(s, {FWRP}, 2)
    IN  IF s[1] = "(" /\ e > 0 /\ \A i \in 2 .. e - 1 : s[i] # ")"
        THEN Match(e, <<FWLP>> \o SubSeq(s, 2, e))
        ELSE NoMatch

\* />([a-zA-Z0-9\u4e00-\u9fa5])/g -> > $1
MatchAfterTag(s) ==
    IF Len(s) >= 2 /\ s[1] = ">" /\ s[2] \in Alnum \cup HanChars
    THEN Match(2, <<">", SP, s[2]>>)
    ELSE NoMatch

\* /([\u4e00-\u9fa5\u3040-\u30ff])([a-zA-Z0-9`])/g -> $1 $2
MatchCjkThenLatin(s) ==
    IF Len(s) >= 2 /\ s[1] \in CjkChars /\ s[2] \in Alnum \cup {BT}
    THEN Match(2, <<s[1], SP, s[2]>>)
    ELSE NoMatch

\* /([a-zA-Z0-9`])([\u4e00-\u9fa5\u3040-\u30ff])/g -> $1 $2
MatchLatinThenCjk(s) ==
    IF Len(s) >= 2 /\ s[1] \in Alnum \cup {BT} /\ s[2] \in CjkChars
    THEN Match(2, <<s[1], SP, s[2]>>)
    ELSE NoMatch

\* periodRegex: /(cjk)\./g -> $1 and the ideographic full stop
MatchPeriod(lang, s) ==
    IF Len(s) >= 2 /\ s[1] \in CjkOf(lang) /\ s[2] = "."
    THEN Match(2, <<s[1], IDEO_STOP>>)
    ELSE NoMatch

\* /\uFF08([^\uFF09]*?)\uFF09/g -> ($1)
MatchFullwidthPair(s) ==
    LET e == IndexOf(s, {FWRP}, 2)
    IN  IF s[1] = FWLP /\ e > 0
        THEN Match(e, <<"(">> \o SubSeq(s, 2, e - 1) \o <<")">>)
        ELSE NoMatch

\* the three replacements of fullwidth punctuation for English
MatchFullwidthPunctuation(s) ==
    IF s[1] = IDEO_STOP THEN Match(1, <<".", SP>>)
    ELSE IF s[1] = FWCOMMA THEN Match(1, <<",", SP>>)
    ELSE IF s[1] = FWCOLON THEN Match(1, <<":", SP>>)
    ELSE NoMatch

\* /  +/g -> one space
MatchSpaces(s) ==
    IF SpacesAt(s, 1) >= 2 THEN Match(SpacesAt(s, 1), <<SP>>) ELSE NoMatch

MatchAt(rule, lang, s) ==
    CASE rule = "escapedBacktick" -> MatchEscapedBacktick(s)
      [] rule = "gluedCode" -> MatchGluedCode(s)
      [] rule = "quoteBeforeCode" -> MatchQuoteBeforeCode(s)
      [] rule = "quoteAfterCode" -> MatchQuoteAfterCode(s)
      [] rule = "mixedParens" -> MatchMixedParens(lang, s)
      [] rule = "halfClosed" -> MatchHalfClosed(s)
      [] rule = "halfOpened" -> MatchHalfOpened(s)
      [] rule = "afterTag" -> MatchAfterTag(s)
      [] rule = "cjkThenLatin" -> MatchCjkThenLatin(s)
      [] rule = "latinThenCjk" -> MatchLatinThenCjk(s)
      [] rule = "period" -> MatchPeriod(lang, s)
      [] rule = "fullwidthPair" -> MatchFullwidthPair(s)
      [] rule = "fullwidthPunctuation" -> MatchFullwidthPunctuation(s)
      [] rule = "spaces" -> MatchSpaces(s)

\* text.replace(pattern, replacement) with a global pattern: the matches are
\* taken from left to right, each search starting where the last match ended
RECURSIVE ReplaceAll(_, _, _)
ReplaceAll(rule, lang, s) ==
    IF s = <<>> THEN <<>>
    ELSE LET m == MatchAt(rule, lang, s)
         IN  IF m.len > 0
             THEN m.out \o ReplaceAll(rule, lang, SubSeq(s, m.len + 1, Len(s)))
             ELSE <<Head(s)>> \o ReplaceAll(rule, lang, Tail(s))

\* text.replace(/["\u201C\u201D]\s*$/, "")
StripTrailingQuote(s) ==
    IF EndsWith(TrimEnd(s), Q) \/ EndsWith(TrimEnd(s), LDQUO)
           \/ EndsWith(TrimEnd(s), RDQUO)
    THEN Front(TrimEnd(s))
    ELSE s

\* text.replace(/^\s*["\u201C\u201D]/, "")
StripLeadingQuote(s) ==
    IF StartsWith(TrimStart(s), Q) \/ StartsWith(TrimStart(s), LDQUO)
           \/ StartsWith(TrimStart(s), RDQUO)
    THEN Tail(TrimStart(s))
    ELSE s

\* the node types of the siblings the pass looks at; "none" for no sibling
SpacedAfter == {"html", "mdxJsxFlowElement", "inlineCode"}

\* step 1: text.replace(/\\BACKTICK/g, ...) then text.replace(/BACKTICK\s*BACKTICK/g, ...)
UnescapeBackticks(s) ==
    ReplaceAll("gluedCode", "", ReplaceAll("escapedBacktick", "", s))

\* if (next && next.type === "inlineCode") text = text.replace(...)
StripQuoteBeforeCode(s, next) ==
    IF next = "inlineCode" THEN StripTrailingQuote(s) ELSE s

\* if (prev && prev.type === "inlineCode") text = text.replace(...)
StripQuoteAfterCode(s, prev) ==
    IF prev = "inlineCode" THEN StripLeadingQuote(s) ELSE s

\* steps 1 and 2: backticks, and the quotes next to a code sibling or span
CleanQuotes(s, prev, next) ==
    ReplaceAll("quoteAfterCode", "",
        ReplaceAll("quoteBeforeCode", "",
            StripQuoteAfterCode(
                StripQuoteBeforeCode(UnescapeBackticks(s), next), prev)))

\* step 3: the three replacements of parentheses
FixParentheses(s, lang) ==
    ReplaceAll("halfOpened", lang,
        ReplaceAll("halfClosed", lang, ReplaceAll("mixedParens", lang, s)))

\* step 4: if (text.startsWith(")") && prev && prev.type === "inlineCode")
OrphanClosing(s, prev) ==
    IF StartsWith(s, ")") /\ prev = "inlineCode"
    THEN <<FWRP>> \o Tail(s) ELSE s

\* step 4: if (text.endsWith("(") && next && next.type === "inlineCode")
OrphanOpening(s, next) ==
    IF EndsWith(s, "(") /\ next = "inlineCode"
    THEN Front(s) \o <<FWLP>> ELSE s

\* step 5: a space between markup or code and the text that follows it
SpaceAfterMarkup(s, prev) ==
    IF prev \in SpacedAfter /\ s # <<>> /\ s[1] \in Alnum \cup HanChars
    THEN <<SP>> \o s ELSE s

\* step 5 in the text, and step 6
FixSpacing(s, lang) ==
    ReplaceAll("latinThenCjk", lang,
        ReplaceAll("cjkThenLatin", lang, ReplaceAll("afterTag", lang, s)))

\* the block for zh and ja
CleanCjk(s, prev, next, lang) ==
    ReplaceAll("period", lang,
        FixSpacing(
            SpaceAfterMarkup(
                OrphanOpening(
                    OrphanClosing(FixParentheses(s, lang), prev), next),
                prev),
            lang))

\* the block for en
CleanEnglish(s) ==
    ReplaceAll("fullwidthPunctuation", "en", ReplaceAll("fullwidthPair", "en", s))

\* if (lang === "zh" || lang === "ja") { ... }
CjkBlock(s, prev, next, lang) ==
    IF lang \in {"zh", "ja"} THEN CleanCjk(s, prev, next, lang) ELSE s

\* if (lang === "en") { ... }
EnglishBlock(s, lang) == IF lang = "en" THEN CleanEnglish(s) ELSE s

\* the visitor of the pass on one text node: its new value, given the types of
\* the siblings before and after it
Janitor(s, prev, next, lang) ==
    IF s = <<>> THEN s
    ELSE ReplaceAll("spaces", lang,
             EnglishBlock(
                 CjkBlock(CleanQuotes(s, prev, next), prev, next, lang), lang))

\* parent.children[index - 1] and parent.children[index + 1]
SiblingType(children, i) ==
    IF i \in 1 .. Len(children) THEN children[i].type ELSE "none"

\* visit(tree, "text", ...) over the children of one parent
JanitorPass(children, lang) ==
    [i \in 1 .. Len(children) |->
        IF children[i].type = "text"
        THEN [children[i] EXCEPT
                 !.value = Str(Janitor(children[i].value.v,
                                       SiblingType(children, i - 1),
                                       SiblingType(children, i + 1), lang))]
        ELSE children[i]]

\* -------------------------------------------------- snakeCaseToCodePlugin

US == "_"

\* \w, the characters that \b tells apart from the others
WordChars == Alnum \cup {US}

\* \b between s[k] and s[k + 1]; k = 0 is the start of s, k = Len(s) its end
WordBoundary(s, k) ==
    (k >= 1 /\ s[k] \in WordChars) # (k < Len(s) /\ s[k + 1] \in WordChars)

\* [a-zA-Z0-9]+(_[a-zA-Z0-9]+)* : the pattern without its need of an underscore
IdentifierPatternNoUnderscore(w) ==
    /\ w # <<>>
    /\ \A i \in 1 .. Len(w) : w[i] \in WordChars
    /\ w[1] # US
    /\ w[Len(w)] # US
    /\ \A i \in 1 .. Len(w) - 1 : ~(w[i] = US /\ w[i + 1] = US)

\* w is [a-zA-Z0-9]+(_[a-zA-Z0-9]+)+
IdentifierPattern(w) ==
    /\ w # <<>>
    /\ \A i \in 1 .. Len(w) : w[i] \in WordChars
    /\ w[1] # US
    /\ w[Len(w)] # US
    /\ \A i \in 1 .. Len(w) - 1 : ~(w[i] = US /\ w[i + 1] = US)
    /\ \E i \in 1 .. Len(w) : w[i] = US

\* where a match of regex that starts at index i can end
MatchEnds(s, i) ==
    {e \in i .. Len(s) :
        /\ WordBoundary(s, i - 1)
        /\ IdentifierPattern(SubSeq(s, i, e))
        /\ WordBoundary(s, e)}

Longest(ends) == CHOOSE e \in ends : \A f \in ends : f <= e

\* regex.exec(s) with regex.lastIndex = from - 1: the first match at or after
\* from, its quantifiers greedy; index 0 for null
RECURSIVE Exec(_, _)
Exec(s, from) ==
    IF from > Len(s) THEN [index |-> 0, end |-> 0]
    ELSE IF MatchEnds(s, from) # {}
    THEN [index |-> from, end |-> Longest(MatchEnds(s, from))]
    ELSE Exec(s, from + 1)

\* { type, value }
Fragment(type, s) == Node(type, Str(s), 1, <<>>)

\* node.value.slice(lastIndex, match.index), pushed if match.index > lastIndex
TextBefore(s, from, index) ==
    IF index > from THEN <<Fragment("text", SubSeq(s, from, index - 1))>>
    ELSE <<>>

\* node.value.slice(lastIndex), pushed if lastIndex < node.value.length
TextAfter(s, from) ==
    IF from <= Len(s) THEN <<Fragment("text", SubSeq(s, from, Len(s)))>>
    ELSE <<>>

\* the while loop over regex.exec and the push after it; from is lastIndex + 1
RECURSIVE Parts(_, _)
Parts(s, from) ==
    LET match == Exec(s, from)
    IN  IF match.index = 0 THEN TextAfter(s, from)
        ELSE TextBefore(s, from, match.index)
                 \o <<Fragment("inlineCode", SubSeq(s, match.index, match.end))>>
                 \o Parts(s, match.end + 1)

\* parent.children.splice(index, 1, ...parts)
Splice(children, index, parts) ==
    SubSeq(children, 1, index - 1) \o parts
        \o SubSeq(children, index + 1, Len(children))

\* the visitor on the text node children[index]: the children of the parent
\* afterwards and the index the traversal goes on at
SnakeCaseToCode(children, index) ==
    IF Exec(children[index].value.v, 1).index = 0
    THEN [children |-> children, next |-> index + 1]
    ELSE [children |-> Splice(children, index,
                           Parts(children[index].value.v, 1)),
          next |-> index + Len(Parts(children[index].value.v, 1))]

\* ----------------------------------------------------------- the main runner

DOT == "."

LANG_MAP ==
    (<<"z", "h">> :> 
            <<"S", "i", "m", "p", "l", "i", "f", "i", "e", "d", " ", "C",
              "h", "i", "n", "e", "s", "e">>)
        @@ (<<"j", "a">> :> <<"J", "a", "p", "a", "n", "e", "s", "e">>)
        @@ (<<"e", "n">> :> <<"E", "n", "g", "l", "i", "s", "h">>)

\* LANG_MAP[langCode]: LANG_MAP is an object literal, so it answers for the
\* properties it inherits from Object.prototype as well
LangMapGet(code) ==
    IF code \in DOMAIN LANG_MAP THEN Str(LANG_MAP[code])
    ELSE IF code \in ObjectPrototypeKeys THEN ObjectFunction
    ELSE Undefined

\* the index of the first occurrence of pat in s at or after from; 0 if none
RECURSIVE Find(_, _, _)
Find(s, pat, from) ==
    IF from + Len(pat) - 1 > Len(s) THEN 0
    ELSE IF SubSeq(s, from, from + Len(pat) - 1) = pat THEN from
    ELSE Find(s, pat, from + 1)

\* s.replace(pat, rep) with a string pattern: the first occurrence only
ReplaceFirst(s, pat, rep) ==
    IF Find(s, pat, 1) = 0 THEN s
    ELSE SubSeq(s, 1, Find(s, pat, 1) - 1) \o rep
             \o SubSeq(s, Find(s, pat, 1) + Len(pat), Len(s))

MD == <<DOT, "m", "d">>
MDX == <<DOT, "m", "d", "x">>

\* outputName
OutputName(v, filePath, code) ==
    IF v = 1
    THEN ReplaceFirst(ReplaceFirst(filePath, MDX, <<DOT>> \o code \o MDX),
                      MD, <<DOT>> \o code \o MD)
    ELSE ReplaceFirst(filePath, MDX, <<DOT, "e", "s">> \o MDX)

\* the checks that run before translateFile: where the process goes next and
\* the status it exits with (-1: it goes on)
Configure(v, argv, key) ==
    IF v = 1
    THEN IF Falsy(argv.file) \/ Falsy(argv.lang)
         THEN [pc |-> "exited", exit |-> 1]
         ELSE IF Falsy(LangMapGet(argv.lang.v))
         THEN [pc |-> "exited", exit |-> 1]
         ELSE IF Falsy(key)
         THEN [pc |-> "exited", exit |-> 1]
         ELSE [pc |-> "translateFile", exit |-> -1]
    ELSE IF Falsy(argv.file)
         THEN [pc |-> "exited", exit |-> 0]
         ELSE [pc |-> "translateFile", exit |-> -1]

\* the plugins of unified().use(...), in the order process(file) runs them
Transformers(v) ==
    IF v = 1
    THEN <<"snakeCaseToCodePlugin", "geminiTranslatePlugin",
           "cleanupGeminiArtifactsPlugin">>
    ELSE <<"geminiTranslatePlugin", "protectVariablesPlugin">>

\* process(file): the parser, the plugins, the compiler
Passes(v) == <<"remarkParse">> \o Transformers(v) \o <<"remarkStringify">>

\* the steps inside geminiTranslatePlugin
StepsInside == {"collect", "writeBack"}

\* the passes that ran to their end
Completed(passes) == SelectSeq(passes, LAMBDA p : p \notin StepsInside)

\* the pass process(file) is at; "done" once it has resolved
NextPass(v, passes) ==
    IF Len(Completed(passes)) < Len(Passes(v))
    THEN Passes(v)[Len(Completed(passes)) + 1]
    ELSE "done"

\* geminiTranslatePlugin has collected its units and not ended yet
Collected(passes) == passes # <<>> /\ passes[Len(passes)] \in StepsInside

\* reaches writeFileSync without a check of the passes
ProcessedOrNot(v, passes) == TRUE

\* await unified()...process(file) has resolved
Processed(v, passes) == NextPass(v, passes) = "done"

\* ------------------------------------------------------------- the provider

\* What the text argument of a call can be.
A1 == <<"a">>
CallTexts ==
    {Str(<<>>), Str(<<SP>>), Str(A1), Str(<<"b">>), Str(<<BT, "a", BT>>),
     Str(ConstructorKey), Num(<<"4", "2">>), Num(<<"0">>), Null}

\* What response.text() can return.
Replies ==
    {<<>>, <<SP>>, <<"x">>, <<SP, "x", SP>>, <<Q, "x", Q>>, <<Q, Q>>,
     <<BT, "x", BT>>, <<BT>>, <<Q, SP, Q>>}

\* What generateContent, result.response or response.text() can throw: an
\* Error with a message and, for the errors of the API, an HTTP status
\* (0: the error has no status property).
ErrorStatuses == {0, 400, 401, 404, 418, 429, 500, 503}
Errors ==
    [status : ErrorStatuses, message : {"failed"}]
        \cup [status : {0, 400}, message : RetryableMessages]

\* Math.random() * 1000, sampled
JitterSamples == {0, 999}

\* a bound: the number of calls of one run of SpecT
MaxCalls == 2

\* ------------------------------------------------ the documents of SpecC

\* a bound: the number of nodes below the root in the trees of SpecC
MaxNodes == 2

T1 == <<"t">>
LiteralTypes ==
    {"code", "inlineCode", "html", "mdxjsEsm", "mdxFlowExpression",
     "mdxTextExpression"}

MdxAttr(name, value) == Attr("mdxJsxAttribute", name, value)

\* attribute lists of embedded components: <C title="t">, <C summary="t"
\* href="a">, <C label={x} {...p}>, <C alt placeholder="t">, <C>
AttributeLists ==
    {<<MdxAttr("title", Str(T1))>>,
     <<MdxAttr("summary", Str(T1)), MdxAttr("href", Str(A1))>>,
     <<MdxAttr("label", ExpressionValue),
       Attr("mdxJsxExpressionAttribute", "", Str(<<".", ".", ".", "p">>))>>,
     <<MdxAttr("alt", Null), MdxAttr("placeholder", Str(T1))>>,
     <<>>}

\* type, value and attributes of the nodes below the root
Shapes ==
    [type : {"text"}, value : {Str(A1), Str(<<SP>>)}, attributes : {<<>>}]
        \cup [type : LiteralTypes, value : {Str(A1)}, attributes : {<<>>}]
        \cup [type : {"paragraph", "yaml"}, value : {Undefined},
              attributes : {<<>>}]
        \cup [type : JsxTypes, value : {Undefined}, attributes : AttributeLists]

\* front-matter texts:  title: t / other: a;  title: 42 / description: t;
\* title: "" / summary: t / sidebar_label: null;  other: a;  and text that is
\* not a mapping
YamlSources ==
    {Yaml("mapping", <<<<"title", Str(T1)>>, <<"other", Str(A1)>>>>),
     Yaml("mapping", <<<<"title", Num(<<"4", "2">>)>>,
                       <<"description", Str(T1)>>>>),
     Yaml("mapping", <<<<"title", Str(<<>>)>>, <<"summary", Str(T1)>>,
                       <<"sidebar_label", Null>>>>),
     Yaml("mapping", <<<<"other", Str(A1)>>>>),
     Yaml("invalid", <<>>), Yaml("empty", <<>>), Yaml("scalar", <<>>)}

\* What the parser can produce: only parents have children, a yaml node is
\* the first child of the root.
WellFormed(t) ==
    /\ t[1] = Root
    /\ \A i \in 2 .. Len(t) :
          /\ t[i].parent \in 1 .. i - 1
          /\ t[t[i].parent].type \in ParentTypes
          /\ t[i].type = "yaml" => i = 2 /\ t[i].parent = 1

\* the tree whose nodes below the root have the shapes and parents b lists
TreeOf(b) ==
    <<Root>> \o [i \in 1 .. Len(b) |->
                   Node(b[i].shape.type, b[i].shape.value, b[i].parent,
                        b[i].shape.attributes)]

HasYaml(t) == \E n \in 1 .. Len(t) : t[n].type = "yaml"

\* ------------------------------------------------ the documents of SpecP

Paragraph(parent) == Node("paragraph", Undefined, parent, <<>>)
Text(s, parent) == Node("text", Str(s), parent, <<>>)
YamlNode == Node("yaml", Undefined, 1, <<>>)

Doc(t, y) == [tree |-> t, yaml |-> y]

\* ---\ntitle: t\nother: a\n---\n\na
DocTitleOther ==
    Doc(<<Root, YamlNode, Paragraph(1), Text(A1, 3)>>,
        Yaml("mapping", <<<<"title", Str(T1)>>, <<"other", Str(A1)>>>>))

\* ---\ntitle: 42\ndescription: t\n---\n\na
DocNumericTitle ==
    Doc(<<Root, YamlNode, Paragraph(1), Text(A1, 3)>>,
        Yaml("mapping", <<<<"title", Num(<<"4", "2">>)>>,
                          <<"description", Str(T1)>>>>))

\* a (inline code) a constructor
DocRepeatedText ==
    Doc(<<Root, Paragraph(1), Text(A1, 2),
          Node("inlineCode", Str(A1), 2, <<>>), Text(A1, 2),
          Text(ConstructorKey, 2)>>,
        NoYaml)

\* <C title="t" href="a">a</C>
DocComponent ==
    Doc(<<Root,
          Node("mdxJsxFlowElement", Undefined, 1,
               <<MdxAttr("title", Str(T1)), MdxAttr("href", Str(A1))>>),
          Text(A1, 2)>>,
        NoYaml)

\* front-matter that is not YAML, then a paragraph
DocBadYaml ==
    Doc(<<Root, YamlNode, Paragraph(1), Text(A1, 3)>>, Yaml("invalid", <<>>))

\* ---\nother: a\ntitle: ""\n---  and a blank text: nothing to translate
DocNothing ==
    Doc(<<Root, YamlNode, Paragraph(1), Text(<<SP>>, 3)>>,
        Yaml("mapping", <<<<"other", Str(A1)>>, <<"title", Str(<<>>)>>>>))

Documents ==
    {DocTitleOther, DocNumericTitle, DocRepeatedText, DocComponent,
     DocBadYaml, DocNothing}

\* the provider in SpecP: the replies "x" and "", the errors 400 and 429,
\* no jitter
PluginReplies == {<<"x">>, <<>>}
PluginErrors == [status : {400, 429}, message : {"failed"}]
PluginJitter == {0}

\* ------------------------------------------------------------------- SpecT
\* The translator called MaxCalls times, one call after the other.

vars ==
    <<variant, translationCache, call, callsDone, cacheAtCall, tree,
      yamlValue, objRef, units, unitPc, unitCall, unitResult, pluginPc, input,
      jChildren, jLang, jPasses, jOnce, gChildren, gIndex, gOriginal, gDone,
      mArgv, mKey, mPc, mExit, mLog, mPasses, mPending, mFailed>>

varsTonly == <<call, callsDone, cacheAtCall>>
varsP ==
    <<tree, yamlValue, objRef, units, unitPc, unitCall, unitResult, pluginPc,
      input>>

varsJ == <<jChildren, jLang, jPasses, jOnce>>

\* the janitor, not running
RestJ == jChildren = <<>> /\ jLang = "zh" /\ jPasses = 0 /\ jOnce = <<>>

varsG == <<gChildren, gIndex, gOriginal, gDone>>

\* the guard, not running
RestG == gChildren = <<>> /\ gIndex = 1 /\ gOriginal = <<>> /\ gDone = <<>>

varsM == <<mArgv, mKey, mPc, mExit, mLog, mPasses, mPending, mFailed>>

\* no process
RestM ==
    /\ mArgv = [file |-> Undefined, lang |-> Undefined]
    /\ mKey = Undefined
    /\ mPc = "off"
    /\ mExit = -1
    /\ mLog = <<>>
    /\ mPasses = <<>>
    /\ mPending = 0
    /\ mFailed = "none"

\* the translator of SpecT, not called
RestT == call = IdleCall /\ callsDone = 0 /\ cacheAtCall = NoCache

\* the plugin, not running
RestP ==
    /\ tree = <<Root>>
    /\ yamlValue = NoYaml
    /\ input = Doc(<<Root>>, NoYaml)
    /\ objRef = NoObject
    /\ units = <<>>
    /\ unitPc = <<>>
    /\ unitCall = <<>>
    /\ unitResult = <<>>
    /\ pluginPc = "off"

InitT ==
    /\ variant \in Variants
    /\ translationCache = NoCache
    /\ call = IdleCall
    /\ callsDone = 0
    /\ cacheAtCall = NoCache
    /\ RestP
    /\ RestJ
    /\ RestG
    /\ RestM

\* translateTextWithGemini(text) is called
TCall ==
    /\ call.pc = "idle"
    /\ callsDone < MaxCalls
    /\ \E text \in CallTexts : call' = Begin(NewCall(text), translationCache)
    /\ cacheAtCall' = translationCache
    /\ callsDone' = callsDone + 1
    /\ UNCHANGED <<variant, translationCache>>
    /\ UNCHANGED <<varsP, varsJ, varsG, varsM>>

\* the request is answered and response.text() returns a string
TReply ==
    /\ call.pc = "awaiting"
    /\ \E reply \in Replies :
          LET r == OnReply(variant, call, translationCache, reply)
          IN  call' = r.call /\ translationCache' = r.cache
    /\ UNCHANGED <<variant, callsDone, cacheAtCall>>
    /\ UNCHANGED <<varsP, varsJ, varsG, varsM>>

\* the request fails, or the reply's text cannot be read
TError ==
    /\ call.pc = "awaiting"
    /\ \E err \in Errors, jitter \in JitterSamples :
          call' = OnError(variant, call, err, jitter)
    /\ UNCHANGED <<variant, translationCache, callsDone, cacheAtCall>>
    /\ UNCHANGED <<varsP, varsJ, varsG, varsM>>

\* the backoff sleep ends
TWake ==
    /\ call.pc = "sleeping"
    /\ call' = OnWake(call)
    /\ UNCHANGED <<variant, translationCache, callsDone, cacheAtCall>>
    /\ UNCHANGED <<varsP, varsJ, varsG, varsM>>

\* the caller takes the result (or the exception)
TDone ==
    /\ call.pc \in {"returned", "threw"}
    /\ call' = IdleCall
    /\ UNCHANGED <<variant, translationCache, callsDone, cacheAtCall>>
    /\ UNCHANGED <<varsP, varsJ, varsG, varsM>>

NextT == TCall \/ TReply \/ TError \/ TWake \/ TDone

SpecT == InitT /\ [][NextT]_vars

\* ------------------------------------------------- claims on the translator

CallEnded == call.pc \in {"returned", "threw"}

\* the call was given a non-empty string
StringCall == IsString(call.text) /\ call.text.v # <<>>

\* C1: translateTextWithGemini never throws to its caller: for every non-empty
\* input string and every provider behaviour the call ends by returning a
\* string that is either a translation (the cleaned reply of the provider, or
\* the translation cached for the string by an earlier call) or the original
\* input unchanged.
C1_ReturnsTranslationOrOriginal ==
    (CallEnded /\ StringCall) =>
        /\ call.pc = "returned"
        /\ IsString(call.result)
        /\ \/ call.result = call.text
           \/ /\ call.reply # Undefined
              /\ call.result = Str(CleanReply(call.text.v, call.reply.v))
           \/ /\ call.text.v \in DOMAIN cacheAtCall.own
              /\ call.result = cacheAtCall.own[call.text.v]

\* the first request of the call failed and nothing else happened since
FirstRequestFailed == call.failures = 1 /\ call.reply = Undefined

\* an error that is neither one of the listed statuses nor, by its message,
\* an overload
UnknownError(err) ==
    /\ err.status \notin {400, 401, 404} \cup TransientStatuses
    /\ err.message \notin {"RESOURCE_EXHAUSTED", "Overloaded"}

\* C2: when the provider fails with a non-retryable error (status 400, 401 or
\* 404) or with an error of unknown type, the call returns the original
\* string unchanged immediately: exactly one request was issued, no sleep
\* occurred, and the cache is as it was when the call started.
C2_NonRetryableReturnsOriginal ==
    (/\ StringCall
     /\ FirstRequestFailed
     /\ (call.err.status \in {400, 401, 404} \/ UnknownError(call.err))) =>
        /\ call.pc = "returned"
        /\ call.result = call.text
        /\ call.requests = 1
        /\ call.sleeps = 0
        /\ translationCache = cacheAtCall

\* the case of C2: a call whose first request was answered 418 has returned
C2_Witness ==
    /\ call.pc = "returned"
    /\ call.text = Str(A1)
    /\ call.failures = 1
    /\ call.err.status = 418
    /\ call.result = Str(A1)

\* the provider failed with a transient status k times and then answered
FailedThenAnswered(k) ==
    /\ StringCall
    /\ call.pc = "returned"
    /\ call.failures = k
    /\ call.transient = k
    /\ call.reply # Undefined

\* C3 as stated: for every k with 0 <= k < MAX_RETRIES, a provider that fails
\* with a retryable status (429, 500, 503) exactly k times and then succeeds
\* with a non-empty reply makes the call return that translation, after
\* exactly k+1 requests.
C3_AsStated ==
    \A k \in 0 .. MAX_RETRIES - 1 :
        (FailedThenAnswered(k) /\ call.reply.v # <<>>) =>
            /\ call.result = Str(CleanReply(call.text.v, call.reply.v))
            /\ call.requests = k + 1

\* what is left of a reply once it is trimmed and stripped of one pair of
\* surrounding quotes and of backticks the original did not have is not blank
CleanNonBlank(text, reply) == Trim(CleanReply(text, reply)) # <<>>

\* C3 amended: for every k with 0 <= k < MAX_RETRIES, a provider that fails
\* with a retryable status exactly k times and then succeeds with a reply
\* that is not blank once cleaned makes the call return that cleaned reply,
\* after exactly k+1 requests.
C3_RetryThenSuccess ==
    \A k \in 0 .. MAX_RETRIES - 1 :
        (FailedThenAnswered(k) /\ CleanNonBlank(call.text.v, call.reply.v)) =>
            /\ call.result = Str(CleanReply(call.text.v, call.reply.v))
            /\ call.requests = k + 1

\* the case of C3: three transient failures, then the reply "x" (quoted)
C3_Witness ==
    /\ FailedThenAnswered(3)
    /\ call.reply = Str(<<Q, "x", Q>>)
    /\ call.result = Str(<<"x">>)
    /\ call.requests = 4

\* C4: every call ends after at most MAX_RETRIES provider requests: a request
\* is only in flight or slept for while fewer than MAX_RETRIES have failed,
\* and when the provider fails retryably on every request the call returns
\* the original string after the MAX_RETRIES-th failure, having issued
\* MAX_RETRIES requests.
C4_BoundedRetries ==
    /\ call.requests <= MAX_RETRIES
    /\ call.pc \in {"awaiting", "sleeping"} => call.failures < MAX_RETRIES
    /\ call.failures >= MAX_RETRIES =>
          /\ call.pc = "returned"
          /\ call.result = call.text
          /\ call.requests = MAX_RETRIES
          /\ call.failures = MAX_RETRIES

\* the case of C4: the fifth transient failure in a row has made the call return
C4_Witness ==
    /\ call.pc = "returned"
    /\ call.transient = MAX_RETRIES
    /\ call.requests = MAX_RETRIES
    /\ call.result = Str(A1)

\* ---------------------------------------------- geminiTranslatePlugin: steps

\* the callback of nodesToTranslate.map after its call returned val:
\* item.node.value = translatedText, or item.objRef[item.key] = translatedText
WriteBack(i, val) ==
    LET u == units[i]
    IN  /\ tree' = IF u.kind = "text"
                   THEN [tree EXCEPT ![u.node].value = val]
                   ELSE IF u.kind = "attribute"
                   THEN [tree EXCEPT ![u.node].attributes[u.attr].value = val]
                   ELSE tree
        /\ objRef' = IF u.kind = "frontmatter"
                     THEN [objRef EXCEPT !.vals[u.key] = val]
                     ELSE objRef
        /\ unitPc' = [unitPc EXCEPT ![i] = "written"]
        /\ unitResult' = [unitResult EXCEPT ![i] = val]
        /\ unitCall' = [unitCall EXCEPT ![i] = IdleCall]
        /\ UNCHANGED pluginPc

\* the call of unit i threw: the callback's promise is rejected, Promise.all
\* rejects, and the plugin, if it is still waiting, ends with the exception
Rejected(i) ==
    /\ unitPc' = [unitPc EXCEPT ![i] = "threw"]
    /\ unitCall' = [unitCall EXCEPT ![i] = IdleCall]
    /\ pluginPc' = IF pluginPc = "waiting" THEN "rejected" ELSE pluginPc
    /\ UNCHANGED <<tree, objRef, unitResult>>

\* unit i's call went on to c
Advance(i, c) ==
    IF c.pc = "returned" THEN WriteBack(i, c.result)
    ELSE IF c.pc = "threw" THEN Rejected(i)
    ELSE /\ unitCall' = [unitCall EXCEPT ![i] = c]
         /\ unitPc' = [unitPc EXCEPT ![i] = "translating"]
         /\ UNCHANGED <<tree, objRef, unitResult, pluginPc>>

\* The plugin is entered: the tree is visited, the callbacks are started (each
\* sleeps index * 20 ms first) and the plugin awaits Promise.all.
PCollect ==
    /\ pluginPc = "init"
    /\ LET found == Visit(variant, tree, yamlValue, 1)
       IN  /\ units' = found
           /\ unitPc' = [i \in 1 .. Len(found) |-> "timer"]
           /\ unitCall' = [i \in 1 .. Len(found) |-> IdleCall]
           /\ unitResult' = [i \in 1 .. Len(found) |-> Undefined]
    /\ objRef' = CollectedObject(tree, yamlValue)
    /\ pluginPc' = "waiting"
    /\ UNCHANGED <<variant, translationCache, tree, yamlValue, input>>
    /\ UNCHANGED <<varsTonly, varsJ, varsG, varsM>>

\* the timer of unit i fires (the timers fire in the order of their delays):
\* translateTextWithGemini(item.original) is called
PTimer(i) ==
    /\ pluginPc # "init"
    /\ unitPc[i] = "timer"
    /\ \A j \in 1 .. i - 1 : unitPc[j] # "timer"
    /\ Advance(i, Begin(NewCall(units[i].original), translationCache))
    /\ UNCHANGED <<variant, translationCache, yamlValue, units, input>>
    /\ UNCHANGED <<varsTonly, varsJ, varsG, varsM>>

\* the request of unit i is answered
PReply(i) ==
    /\ unitPc[i] = "translating"
    /\ unitCall[i].pc = "awaiting"
    /\ \E reply \in PluginReplies :
          LET r == OnReply(variant, unitCall[i], translationCache, reply)
          IN  Advance(i, r.call) /\ translationCache' = r.cache
    /\ UNCHANGED <<variant, yamlValue, units, input>>
    /\ UNCHANGED <<varsTonly, varsJ, varsG, varsM>>

\* the request of unit i fails
PError(i) ==
    /\ unitPc[i] = "translating"
    /\ unitCall[i].pc = "awaiting"
    /\ \E err \in PluginErrors, jitter \in PluginJitter :
          Advance(i, OnError(variant, unitCall[i], err, jitter))
    /\ UNCHANGED <<variant, translationCache, yamlValue, units, input>>
    /\ UNCHANGED <<varsTonly, varsJ, varsG, varsM>>

\* the backoff sleep of unit i ends
PWake(i) ==
    /\ unitPc[i] = "translating"
    /\ unitCall[i].pc = "sleeping"
    /\ Advance(i, OnWake(unitCall[i]))
    /\ UNCHANGED <<variant, translationCache, yamlValue, units, input>>
    /\ UNCHANGED <<varsTonly, varsJ, varsG, varsM>>

\* Promise.all resolved: bar.stop() and visit(tree, "yaml", ...), which dumps
\* the front-matter object when a front-matter unit refers to the node
PFinalize ==
    /\ pluginPc = "waiting"
    /\ \A i \in 1 .. Len(units) : unitPc[i] = "written"
    /\ LET linked == \E i \in 1 .. Len(units) : units[i].kind = "frontmatter"
           dumped == YamlDump(objRef)
       IN  IF ~linked THEN pluginPc' = "resolved" /\ UNCHANGED yamlValue
           ELSE IF dumped.ok
           THEN pluginPc' = "resolved" /\ yamlValue' = dumped.text
           ELSE pluginPc' = "rejected" /\ UNCHANGED yamlValue
    /\ UNCHANGED <<variant, translationCache, tree, objRef, units, unitPc,
                   unitCall, unitResult, input>>
    /\ UNCHANGED <<varsTonly, varsJ, varsG, varsM>>

\* ------------------------------------------------------------------- SpecC
\* The collection phase of the plugin on every tree of at most MaxNodes nodes.

InitC ==
    /\ variant \in Variants
    /\ translationCache = NoCache
    /\ RestT
    /\ \E k \in 0 .. MaxNodes :
          \E b \in [1 .. k -> [shape : Shapes, parent : 1 .. k]] :
              /\ tree = TreeOf(b)
              /\ WellFormed(tree)
    /\ yamlValue \in (IF HasYaml(tree) THEN YamlSources ELSE {NoYaml})
    /\ input = Doc(tree, yamlValue)
    /\ objRef = NoObject
    /\ units = <<>>
    /\ unitPc = <<>>
    /\ unitCall = <<>>
    /\ unitResult = <<>>
    /\ pluginPc = "init"
    /\ RestJ
    /\ RestG
    /\ RestM

NextC == PCollect

SpecC == InitC /\ [][NextC]_vars

\* ------------------------------------------------------------------- SpecP
\* The whole plugin on the documents of Documents, the requests of the units
\* answered in any order.

InitP ==
    /\ variant \in Variants
    /\ translationCache = NoCache
    /\ RestT
    /\ input \in Documents
    /\ tree = input.tree
    /\ yamlValue = input.yaml
    /\ objRef = NoObject
    /\ units = <<>>
    /\ unitPc = <<>>
    /\ unitCall = <<>>
    /\ unitResult = <<>>
    /\ pluginPc = "init"
    /\ RestJ
    /\ RestG
    /\ RestM

UnitIds == 1 .. Len(units)

NextP ==
    \/ PCollect
    \/ \E i \in UnitIds : PTimer(i)
    \/ \E i \in UnitIds : PReply(i)
    \/ \E i \in UnitIds : PError(i)
    \/ \E i \in UnitIds : PWake(i)
    \/ PFinalize

SpecP == InitP /\ [][NextP]_vars

\* ----------------------------------------------------- claims on the plugin

\* code spans, code blocks, raw markup and embedded script
ProtectedTypes ==
    {"code", "inlineCode", "html", "mdxjsEsm", "mdxFlowExpression",
     "mdxTextExpression"}

\* C5: no collected unit refers to a node of type code, inlineCode or a
\* raw-markup or embedded-script node, nor to a descendant of one.
C5_CodeNeverCollected ==
    \A i \in 1 .. Len(units) :
        /\ tree[units[i].node].type \notin ProtectedTypes
        /\ \A a \in AncestorsOf(tree, units[i].node) :
              tree[a].type \notin ProtectedTypes

\* the case of C5: the tree holds inline code with a non-blank value next to
\* prose text, and the collection over it found the prose text only
C5_Witness ==
    /\ pluginPc = "waiting"
    /\ \E n \in 1 .. Len(tree) :
          tree[n].type = "inlineCode" /\ Trim(tree[n].value.v) # <<>>
    /\ Len(units) = 1
    /\ units[1].kind = "text"

PassEnded == pluginPc \in {"resolved", "rejected"}

\* the front-matter the plugin was given parses as a mapping
ParsableFrontmatter == input.yaml.kind = "mapping" /\ YamlLoad(input.yaml).ok

\* what the translator returned for the front-matter key k: the result of the
\* unit of k, or, for a value no unit was made for (a falsy one), what the
\* translator returns for it at once
TranslatorResultFor(k) ==
    IF \E i \in 1 .. Len(units) :
           units[i].kind = "frontmatter" /\ units[i].key = k
    THEN unitResult[CHOOSE i \in 1 .. Len(units) :
                        units[i].kind = "frontmatter" /\ units[i].key = k]
    ELSE Begin(NewCall(YamlLoad(input.yaml).obj.vals[k]),
               translationCache).result

\* after the pass the front-matter has the keys it had, each key of the
\* allow-list with the translator's result, each other key with its value
FrontmatterTranslated ==
    LET before == YamlLoad(input.yaml).obj
        after == YamlLoad(yamlValue).obj
    IN  /\ after.keys = before.keys
        /\ \A k \in SeqRange(before.keys) :
              after.vals[k] =
                  IF k \in {"title", "description", "sidebar_label", "summary"}
                  THEN TranslatorResultFor(k)
                  ELSE before.vals[k]

\* C6: after a translation pass over a document with a parsable front-matter
\* block, every front-matter key in the allow-list holds the translator's
\* result for its original value and every other key keeps its original
\* value; no key is added or removed.
C6_FrontmatterAllowList ==
    (PassEnded /\ ParsableFrontmatter) => FrontmatterTranslated

\* the same of the passes that end without an exception
C6_WhenResolved ==
    (pluginPc = "resolved" /\ ParsableFrontmatter) => FrontmatterTranslated

\* the value at the location unit i refers to
LocationValue(i) ==
    LET u == units[i]
    IN  IF u.kind = "text" THEN tree[u.node].value
        ELSE IF u.kind = "attribute"
        THEN tree[u.node].attributes[u.attr].value
        ELSE objRef.vals[u.key]

AllWritten == \A i \in 1 .. Len(units) : unitPc[i] = "written"

\* C7: the plugin finishes only after every unit has been attempted and
\* written back: when it has finished, each unit's location holds the value
\* the translator returned for the unit, and the front-matter is
\* re-serialized only after all writes are done.
C7_FinishesAfterAllWrites ==
    /\ PassEnded =>
          /\ AllWritten
          /\ \A i \in 1 .. Len(units) : LocationValue(i) = unitResult[i]
    /\ yamlValue # input.yaml => AllWritten

\* the same of the passes that end without an exception
C7_WhenResolved ==
    /\ pluginPc = "resolved" =>
          /\ AllWritten
          /\ \A i \in 1 .. Len(units) : LocationValue(i) = unitResult[i]
    /\ yamlValue # input.yaml => AllWritten

\* ------------------------------------------------------------------- SpecJ
\* The janitor pass applied twice to a text node between two siblings.

\* a bound: the length of the text of SpecJ
MaxTextLen == 3

JanitorAlphabet ==
    {"a", "7", SP, Q, BT, BSL, "(", ")", FWRP, HAN, ".", IDEO_STOP, ">"}

\* the sequences of at most n elements of alphabet
StringsUpTo(alphabet, n) == UNION {[1 .. k -> alphabet] : k \in 0 .. n}

Languages == {"zh", "ja", "en"}

CodeSibling == Node("inlineCode", Str(A1), 1, <<>>)

InitJ ==
    /\ variant = 1
    /\ translationCache = NoCache
    /\ RestT
    /\ RestP
    /\ RestG
    /\ RestM
    /\ jLang \in Languages
    /\ \E before \in {<<>>, <<CodeSibling>>}, after \in {<<>>, <<CodeSibling>>} :
          \E k \in 0 .. MaxTextLen :
              \E s \in [1 .. k -> JanitorAlphabet] :
                  jChildren = before \o <<Text(s, 1)>> \o after
    /\ jOnce = jChildren
    /\ jPasses = 0

\* cleanupGeminiArtifactsPlugin({ lang })(tree)
JPass ==
    /\ jPasses < 2
    /\ jChildren' = JanitorPass(jChildren, jLang)
    /\ jOnce' = IF jPasses = 0 THEN jChildren' ELSE jOnce
    /\ jPasses' = jPasses + 1
    /\ UNCHANGED <<variant, translationCache, jLang>>
    /\ UNCHANGED <<varsTonly, varsP, varsG, varsM>>

NextJ == JPass

SpecJ == InitJ /\ [][NextJ]_vars

\* C8: the janitor is idempotent: for every list of text and inline-code
\* siblings and every supported language, applying the pass twice leaves
\* every text node's value equal to its value after applying the pass once.
C8_JanitorIdempotent == jPasses = 2 => jChildren = jOnce

\* ------------------------------------------------------------------- SpecG
\* The guard visiting the children of one parent.

\* a bound: the number of pieces a text of SpecG is made of
MaxPieces == 3

GuardPieces ==
    {<<"a">>, <<"7">>, <<US>>, <<SP>>, <<"-">>, <<"a", US, "b">>}

RECURSIVE Flatten(_)
Flatten(ss) == IF ss = <<>> THEN <<>> ELSE Head(ss) \o Flatten(Tail(ss))

\* the example of the guard
Example ==
    <<"s", "e", "e", SP, "s", "y", "s", US, "l", "o", "g", US, "d", "i",
      "r", SP, "a", "n", "d", SP, "o", "t", "h", "e", "r", SP, "t", "e",
      "x", "t">>

GuardTexts ==
    {Flatten(ss) : ss \in StringsUpTo(GuardPieces, MaxPieces)} \cup {Example}

\* a text node alone, before another text node, or after inline code
GuardChildren ==
    {<<Text(s, 1)>> : s \in GuardTexts}
        \cup {<<Text(s, 1), Text(<<"b", US, "7", SP, "a">>, 1)>> : s \in GuardTexts}
        \cup {<<Fragment("inlineCode", A1), Text(s, 1)>> : s \in GuardTexts}

InitG ==
    /\ variant = 1
    /\ translationCache = NoCache
    /\ RestT
    /\ RestP
    /\ RestJ
    /\ RestM
    /\ gChildren \in GuardChildren
    /\ gOriginal = gChildren
    /\ gIndex = 1
    /\ gDone = <<>>

\* visit(tree, "text", visitor) at a text node
GText ==
    /\ gIndex <= Len(gChildren)
    /\ gChildren[gIndex].type = "text"
    /\ gChildren' = SnakeCaseToCode(gChildren, gIndex).children
    /\ gIndex' = SnakeCaseToCode(gChildren, gIndex).next
    /\ gDone' = Append(gDone,
                    [original |-> gChildren[gIndex],
                     parts |-> SubSeq(gChildren', gIndex, gIndex' - 1)])
    /\ UNCHANGED <<variant, translationCache, gOriginal>>
    /\ UNCHANGED <<varsTonly, varsP, varsJ, varsM>>

\* visit(tree, "text", visitor) at a node of another type: the visitor is not
\* called
GOther ==
    /\ gIndex <= Len(gChildren)
    /\ gChildren[gIndex].type # "text"
    /\ gIndex' = gIndex + 1
    /\ gDone' = Append(gDone,
                    [original |-> gChildren[gIndex],
                     parts |-> <<gChildren[gIndex]>>])
    /\ UNCHANGED <<variant, translationCache, gChildren, gOriginal>>
    /\ UNCHANGED <<varsTonly, varsP, varsJ, varsM>>

NextG == GText \/ GOther

SpecG == InitG /\ [][NextG]_vars

RECURSIVE ConcatValues(_)
ConcatValues(parts) ==
    IF parts = <<>> THEN <<>>
    ELSE Head(parts).value.v \o ConcatValues(Tail(parts))

\* where fragment j starts in the text the fragments concatenate to
StartOf(parts, j) == 1 + Len(ConcatValues(SubSeq(parts, 1, j - 1)))

CodeSpans(parts) ==
    {<<StartOf(parts, j), StartOf(parts, j) + Len(parts[j].value.v) - 1>> :
        j \in {k \in 1 .. Len(parts) : parts[k].type = "inlineCode"}}

MatchSpans(s) ==
    {span \in (1 .. Len(s)) \X (1 .. Len(s)) : span[2] \in MatchEnds(s, span[1])}

HasUnderscore(s) == \E i \in 1 .. Len(s) : s[i] = "_"

Guarded(text, parts) ==
    /\ ConcatValues(parts) = text
    /\ \A j \in 1 .. Len(parts) :
          /\ parts[j].type \in {"text", "inlineCode"}
          /\ parts[j].type = "inlineCode" => HasUnderscore(parts[j].value.v)
    /\ CodeSpans(parts) = MatchSpans(text)
    /\ text = Example =>
          parts = <<Fragment("text", SubSeq(Example, 1, 4)),
                    Fragment("inlineCode", SubSeq(Example, 5, 15)),
                    Fragment("text", SubSeq(Example, 16, Len(Example)))>>

RECURSIVE PartsOf(_)
PartsOf(done) ==
    IF done = <<>> THEN <<>> ELSE Head(done).parts \o PartsOf(Tail(done))

\* C9: the guard replaces each prose-text node by fragments, in order, whose
\* values concatenate to the node's text; the inline-code fragments are
\* exactly the matches of the identifier pattern, each with an underscore, the
\* rest stays in text fragments, for any number of matches in a node; the
\* example yields text "see ", code sys_log_dir, text " and other text".
C9_GuardSplitsAtIdentifiers ==
    /\ \A k \in 1 .. Len(gDone) :
          gDone[k].original.type = "text" =>
              Guarded(gDone[k].original.value.v, gDone[k].parts)
    /\ gIndex > Len(gChildren) =>
          /\ gChildren = PartsOf(gDone)
          /\ gOriginal = [k \in 1 .. Len(gDone) |-> gDone[k].original]

\* the case of C9: a text node with two identifiers and text between them
\* was replaced by code, text, code
C9_Witness ==
    \E k \in 1 .. Len(gDone) :
        /\ gDone[k].original.type = "text"
        /\ Len(gDone[k].parts) = 3
        /\ gDone[k].parts[1].type = "inlineCode"
        /\ gDone[k].parts[2].type = "text"
        /\ gDone[k].parts[3].type = "inlineCode"

\* ------------------------------------------------------------------- SpecM
\* One run of the process, from its start to its exit.

\* a bound: the number of provider requests of one run of SpecM
MaxRequests == 2

\* a bound: the number of units the collection of one run of SpecM finds
MaxUnits == 2

FileArguments ==
    {Undefined, Str(<<>>), Str(<<"d">> \o MD), Str(<<"d">> \o MDX),
     Str(<<"d", DOT, "t", "x", "t">>), Str(<<"a", "/", "d">> \o MD)}

LanguageArguments ==
    {Undefined, Str(<<>>), Str(<<"z", "h">>), Str(<<"j", "a">>),
     Str(<<"e", "n">>), Str(<<"f", "r">>), Str(ConstructorKey)}

KeySettings == {Undefined, Str(<<>>), Str(<<"k">>)}

InitM ==
    /\ variant \in Variants
    /\ translationCache = NoCache
    /\ RestT
    /\ RestP
    /\ RestJ
    /\ RestG
    /\ mArgv \in [file : FileArguments, lang : LanguageArguments]
    /\ mKey \in KeySettings
    /\ mPc = "start"
    /\ mExit = -1
    /\ mLog = <<>>
    /\ mPasses = <<>>
    /\ mPending = 0
    /\ mFailed = "none"

varsNotM == <<variant, translationCache, varsTonly, varsP, varsJ, varsG>>

\* the module runs up to the call of translateFile
MConfigure ==
    /\ mPc = "start"
    /\ mPc' = Configure(variant, mArgv, mKey).pc
    /\ mExit' = Configure(variant, mArgv, mKey).exit
    /\ UNCHANGED <<mArgv, mKey, mLog, mPasses, mPending, mFailed>>
    /\ UNCHANGED varsNotM

\* translateFile up to the end of read(filePath): the second program checks
\* the key first; a read that fails is caught and the process ends
MRead ==
    /\ mPc = "translateFile"
    /\ IF variant = 2 /\ Falsy(mKey)
       THEN /\ mPc' = "exited"
            /\ mExit' = 1
            /\ mLog' = mLog
            /\ mFailed' = mFailed
       ELSE \E found \in BOOLEAN :
               /\ mLog' = Append(mLog, [op |-> "read", path |-> mArgv.file.v])
               /\ mPc' = IF found THEN "process" ELSE "exited"
               /\ mExit' = IF found THEN -1 ELSE 0
               /\ mFailed' = IF found THEN mFailed ELSE "read"
    /\ UNCHANGED <<mArgv, mKey, mPasses, mPending>>
    /\ UNCHANGED varsNotM

\* a pass other than the translation runs to its end
MPass ==
    /\ mPc = "process"
    /\ NextPass(variant, mPasses) \notin {"done", "geminiTranslatePlugin"}
    /\ mPasses' = Append(mPasses, NextPass(variant, mPasses))
    /\ UNCHANGED <<mArgv, mKey, mPc, mExit, mLog, mPending, mFailed>>
    /\ UNCHANGED varsNotM

\* geminiTranslatePlugin: the collection
MCollect ==
    /\ mPc = "process"
    /\ NextPass(variant, mPasses) = "geminiTranslatePlugin"
    /\ ~Collected(mPasses)
    /\ mPending' \in 0 .. MaxUnits
    /\ mPasses' = Append(mPasses, "collect")
    /\ UNCHANGED <<mArgv, mKey, mPc, mExit, mLog, mFailed>>
    /\ UNCHANGED varsNotM

\* geminiTranslatePlugin: a request of a unit to the provider
MRequest ==
    /\ mPc = "process"
    /\ Collected(mPasses)
    /\ mPending > 0
    /\ Len(SelectSeq(mLog, LAMBDA e : e.op = "request")) < MaxRequests
    /\ mLog' = Append(mLog, [op |-> "request", path |-> <<>>])
    /\ UNCHANGED <<mArgv, mKey, mPc, mExit, mPasses, mPending, mFailed>>
    /\ UNCHANGED varsNotM

\* geminiTranslatePlugin: the result of a unit is written to its location
MWriteBack ==
    /\ mPc = "process"
    /\ Collected(mPasses)
    /\ mPending > 0
    /\ mPending' = mPending - 1
    /\ mPasses' = Append(mPasses, "writeBack")
    /\ UNCHANGED <<mArgv, mKey, mPc, mExit, mLog, mFailed>>
    /\ UNCHANGED varsNotM

\* geminiTranslatePlugin: Promise.all resolves and the pass ends
MTranslated ==
    /\ mPc = "process"
    /\ Collected(mPasses)
    /\ NextPass(variant, mPasses) = "geminiTranslatePlugin"
    /\ mPending = 0
    /\ mPasses' = Append(mPasses, "geminiTranslatePlugin")
    /\ UNCHANGED <<mArgv, mKey, mPc, mExit, mLog, mPending, mFailed>>
    /\ UNCHANGED varsNotM

\* the step process(file) is at throws: the error is caught and the process
\* ends
MCatch ==
    /\ mPc = "process"
    /\ NextPass(variant, mPasses) # "done"
    /\ mFailed' = NextPass(variant, mPasses)
    /\ mPc' = "exited"
    /\ mExit' = 0
    /\ UNCHANGED <<mArgv, mKey, mLog, mPasses, mPending>>
    /\ UNCHANGED varsNotM

\* fs.writeFileSync(outputName, String(processedFile)) and the end
MWrite ==
    /\ mPc = "process"
    /\ Processed(variant, mPasses)
    /\ mLog' = Append(mLog,
                   [op |-> "write",
                    path |-> OutputName(variant, mArgv.file.v, mArgv.lang.v)])
    /\ mPc' = "exited"
    /\ mExit' = 0
    /\ UNCHANGED <<mArgv, mKey, mPasses, mPending, mFailed>>
    /\ UNCHANGED varsNotM

NextM ==
    \/ MConfigure
    \/ MRead
    \/ MPass
    \/ MCollect
    \/ MRequest
    \/ MWriteBack
    \/ MTranslated
    \/ MCatch
    \/ MWrite

SpecM == InitM /\ [][NextM]_vars

SupportedLanguages == {<<"z", "h">>, <<"j", "a">>, <<"e", "n">>}

UnsupportedLanguage ==
    ~(IsString(mArgv.lang) /\ mArgv.lang.v \in SupportedLanguages)

ExitsBeforeAnyWork == mLog = <<>> /\ (mPc = "exited" => mExit # 0)

\* C10: when the language code is not zh, ja or en, or the API key is absent,
\* the process exits with a non-zero status before the input file is read,
\* before any request to the provider and before any output file is written.
C10_ConfigErrorFatal ==
    (variant = 1 /\ UnsupportedLanguage) \/ mKey = Undefined
        => ExitsBeforeAnyWork

\* C10 for the first program, the language codes that name a property of
\* Object.prototype left out
C10_OwnLanguageCodes ==
    /\ variant = 1
    /\ UnsupportedLanguage \/ mKey = Undefined
    /\ ~(IsString(mArgv.lang) /\ mArgv.lang.v \in ObjectPrototypeKeys)
    => ExitsBeforeAnyWork

\* ------------------------------------------------------- the output file

EndsIn(s, suffix) ==
    Len(s) >= Len(suffix)
        /\ SubSeq(s, Len(s) - Len(suffix) + 1, Len(s)) = suffix

\* path with the language code put in front of its extension
WithLanguage(path, code, extension) ==
    SubSeq(path, 1, Len(path) - Len(extension)) \o <<DOT>> \o code
        \o extension

LanguageBeforeExtension(path, code) ==
    IF EndsIn(path, MDX) THEN WithLanguage(path, code, MDX)
    ELSE WithLanguage(path, code, MD)

\* a write of the first program for a Markdown input and a supported language
MarkdownWrite(i) ==
    /\ variant = 1
    /\ mLog[i].op = "write"
    /\ ~UnsupportedLanguage
    /\ EndsIn(mArgv.file.v, MD) \/ EndsIn(mArgv.file.v, MDX)

\* C11: for every input path ending in .md or .mdx and every supported
\* language code, the output file is named as the input path with the
\* language code inserted once, right before the extension, in the directory
\* of the input: doc.mdx with zh gives doc.zh.mdx, doc.md gives doc.zh.md.
C11_LanguageInsertedOnce ==
    \A i \in 1 .. Len(mLog) :
        MarkdownWrite(i) =>
            mLog[i].path = LanguageBeforeExtension(mArgv.file.v, mArgv.lang.v)

\* C11 for the inputs that end in .md
C11_MdInputs ==
    \A i \in 1 .. Len(mLog) :
        MarkdownWrite(i) /\ EndsIn(mArgv.file.v, MD) =>
            mLog[i].path = LanguageBeforeExtension(mArgv.file.v, mArgv.lang.v)

\* ------------------------------------------------------ failures of a run

Written == \E i \in 1 .. Len(mLog) : mLog[i].op = "write"

\* C12: when the read, the parse or a pass of the pipeline throws, the error
\* is caught in translateFile and no output file is written; the output file
\* is written only after every pass has run to its end.
C12_WriteOnlyAfterAllPasses ==
    /\ Written =>
          mFailed = "none" /\ Completed(mPasses) = Passes(variant)
    /\ mFailed # "none" => mPc = "exited" /\ mExit = 0 /\ ~Written

\* the case of C12: the translation pass threw after a request had been sent
\* and a result written back, and the process has ended
C12_Witness ==
    /\ mFailed = "geminiTranslatePlugin"
    /\ mPc = "exited"
    /\ \E i \in 1 .. Len(mLog) : mLog[i].op = "request"
    /\ \E i \in 1 .. Len(mPasses) : mPasses[i] = "writeBack"

\* ------------------------------------------------- the order of the passes

GuardPasses == {"snakeCaseToCodePlugin", "protectVariablesPlugin"}
JanitorPasses == {"cleanupGeminiArtifactsPlugin"}

Before(i, j) == i < j

\* C13: the Variable Guard and the Janitor run strictly after every
\* write-back of the dispatcher, in the order Collector, Dispatcher, Janitor,
\* Variable Guard, Serializer, so that no pass changes the structure of the
\* tree between the collection and the last write-back.
C13_GuardAndJanitorAfterWriteBacks ==
    \A i, j \in 1 .. Len(mPasses) :
        /\ mPasses[i] \in StepsInside
               /\ mPasses[j] \in GuardPasses \cup JanitorPasses
           => Before(i, j)
        /\ mPasses[i] \in JanitorPasses /\ mPasses[j] \in GuardPasses
           => Before(i, j)
        /\ mPasses[i] \in GuardPasses \cup JanitorPasses
               /\ mPasses[j] = "remarkStringify"
           => Before(i, j)

\* the aim of C13: between the collection and a write-back no pass runs
C13_NoPassBeforeLastWriteBack ==
    \A i, j, k \in 1 .. Len(mPasses) :
        mPasses[i] = "collect" /\ mPasses[k] = "writeBack" /\ i < j /\ j < k
            => mPasses[j] = "writeBack"

\* ---------------------------------------------------------------- the cache

\* every entry is a non-empty string
EntriesNonEmpty ==
    \A k \in DOMAIN translationCache.own :
        /\ IsString(translationCache.own[k])
        /\ translationCache.own[k].v # <<>>

\* a call for a string that had an entry returned it and sent no request
HitAnswersFromCache ==
    (call.pc # "idle" /\ IsString(call.text)
        /\ call.text.v \in DOMAIN cacheAtCall.own)
    => /\ call.pc = "returned"
       /\ call.requests = 0
       /\ call.result = cacheAtCall.own[call.text.v]

\* the cache changes only when a request is answered, by the entry that maps
\* the text of the call to the cleaned reply, which is non-empty and returned
StoredOnSuccessOnly ==
    translationCache' # translationCache =>
        /\ call.pc = "awaiting"
        /\ call'.pc = "returned"
        /\ IsString(call'.reply)
        /\ IsString(call'.result)
        /\ call'.result.v # <<>>
        /\ call'.result.v = CleanReply(call.text.v, call'.reply.v)
        /\ translationCache'
               = CachePut(translationCache, call.text.v, call'.result)

\* C14: the cache is populated only on success and consulted first: every
\* entry maps a source string to a non-empty translation the provider
\* returned for it, a failed or empty reply adds no entry, and a call whose
\* string has an entry returns the cached value without a provider request.
C14_CacheOnlyOnSuccess ==
    /\ []EntriesNonEmpty
    /\ []HitAnswersFromCache
    /\ [][StoredOnSuccessOnly]_vars

\* C14 for the first program
C14_FirstProgram ==
    /\ [](variant = 1 => EntriesNonEmpty /\ HitAnswersFromCache)
    /\ [][variant = 1 => StoredOnSuccessOnly]_vars

\* ------------------------------------------------------------- the backoff

\* the delay of a sleep that follows the n-th failure, for some jitter
DelayAfter(n, delay) ==
    \E jitter \in 0 .. 999 :
        delay = IF Pow2(n) * BASE_DELAY_MS + jitter <= MAX_DELAY_MS
                THEN Pow2(n) * BASE_DELAY_MS + jitter
                ELSE MAX_DELAY_MS

\* C15: within one call, the sleep that follows the n-th retryable failure
\* lasts min(2^n * BASE_DELAY_MS + jitter, MAX_DELAY_MS) with 0 <= jitter <
\* 1000, so the delays of successive attempts never decrease and none exceeds
\* MAX_DELAY_MS.
C15_BackoffDelays ==
    call.pc = "sleeping" =>
        /\ DelayAfter(call.failures, call.delay)
        /\ call.prevDelay <= call.delay
        /\ call.delay <= MAX_DELAY_MS

\* the case of C15: the call sleeps after its fourth failure, having slept
\* after the third
C15_Witness ==
    /\ call.pc = "sleeping"
    /\ call.sleeps = 4
    /\ call.failures = 4
    /\ call.prevDelay >= 8000
    /\ call.delay >= 16000

\* ------------------------------------------------- the attributes collected

AttributeUnit(n, a) ==
    \E i \in 1 .. Len(units) :
        units[i].kind = "attribute" /\ units[i].node = n /\ units[i].attr = a

\* every attribute of a component is a unit exactly if it is an attribute
\* with a name of names and a string value
AttributesCollected(names) ==
    \A n \in 1 .. Len(input.tree) :
        input.tree[n].type \in JsxTypes =>
            \A a \in 1 .. Len(input.tree[n].attributes) :
                AttributeUnit(n, a)
                    <=> /\ input.tree[n].attributes[a].type = "mdxJsxAttribute"
                        /\ input.tree[n].attributes[a].name \in names
                        /\ IsString(input.tree[n].attributes[a].value)

\* C16: for every embedded-component node the collector records each
\* attribute whose name is title, label, alt, placeholder or summary and whose
\* value is a string, and no attribute with another name or a value that is
\* not a string.
C16_AttributeAllowList ==
    pluginPc # "init" =>
        AttributesCollected({"title", "label", "alt", "placeholder", "summary"})

\* C16 with the names of JSX_PROPS
C16_NamesOfTheCode ==
    pluginPc # "init" =>
        AttributesCollected({"title", "label", "alt", "placeholder"})

\* ---------------------------------------------------- the units' originals

\* C17: every unit the collector records carries a string as its original
\* value, whatever its kind, so the translator is only ever called on a string
\* and a front-matter value of another type is never recorded as a unit.
C17_OriginalsAreStrings ==
    \A i \in 1 .. Len(units) : IsString(units[i].original)

\* C17 for the units of prose text and of component attributes
C17_TextAndAttributeUnits ==
    \A i \in 1 .. Len(units) :
        units[i].kind \in {"text", "attribute"} => IsString(units[i].original)

====
